---- MODULE Spec2Model ----
(***************************************************************************)
(* AscentCast (src/main.py): one run of main().                            *)
(*                                                                         *)
(* A Python str is modelled as a sequence of text chunks; concatenation is *)
(* \o.  The fixed literals of the program ("Error processing transcript: ",*)
(* the pieces of the prompt template, "\n") are single chunks, the texts   *)
(* that come from outside (page markdown, response fragments, exception    *)
(* messages, the --user-context value) are sequences of chunks drawn from  *)
(* small sets.  The four service operations and the two client             *)
(* constructors are external: each either returns or raises an Exception   *)
(* with some message.                                                      *)
(***************************************************************************)
EXTENDS Naturals, Sequences, FiniteSets

VARIABLES
    pc,            \* position of the single thread of control
    argv,          \* the command line: was --user-context given, and its value
    config,        \* Config built by main (lines 117-120)
    calls,         \* log of the file open and the service operations invoked, in order
    fault,         \* first failure of an external step: which step, which message
    ocr_response,  \* pages returned by ocr.process (their markdown texts)
    transcript,    \* local of process_transcript (line 30)
    request,       \* keyword arguments of the messages.create call (lines 92-103)
    message,       \* content of the response of messages.create (text fragments)
    insights,      \* local of process_transcript (line 31)
    exc,           \* message of the exception in flight
    ret,           \* return value of process_transcript
    stdout         \* strings printed, in order

vars == <<pc, argv, config, calls, fault, ocr_response, transcript, request,
          message, insights, exc, ret, stdout>>

-----------------------------------------------------------------------------
(* Bounds of the model. *)

\* most pages in one OCR response
MaxPages == 3

\* most text fragments in one generation response
MaxFragments == 2

\* markdown texts a page may carry
PageTexts == {<<>>, <<"A">>, <<"B">>, <<"C">>}

\* texts a response fragment may carry
FragmentTexts == {<<>>, <<"Hello ">>, <<"world">>}

\* str(e) of an exception raised by an external step
Messages == {<<>>, <<"m">>, <<"OCR processing failed: ">>}

RECURSIVE SeqsUpTo(_, _)
\* all sequences over S of length at most n
SeqsUpTo(S, n) ==
    IF n = 0 THEN {<<>>}
    ELSE LET shorter == SeqsUpTo(S, n - 1)
         IN  shorter \cup {Append(s, x) : s \in shorter, x \in S}

PageLists == SeqsUpTo(PageTexts, MaxPages)

FragmentLists == SeqsUpTo(FragmentTexts, MaxFragments)

-----------------------------------------------------------------------------
(* Program constants. *)

\* Config.model, line 17
model == "claude-3-7-sonnet-20250219"

\* Config.max_tokens, line 18
max_tokens == 4000

\* Config.temperature, line 19
temperature == 1

\* default of --user-context, line 113
DefaultUserContext ==
    <<"I am a professional looking to grow my career in technology and startups.">>

\* values given with --user-context: the empty string, a plain value, and a
\* value that extends the default sentence
UserContexts ==
    {<<>>, <<"I am a nurse.">>, DefaultUserContext \o <<" I work in fintech.">>}

\* the separator of line 57
Newline == <<"\n">>

-----------------------------------------------------------------------------
(* Pure functions. *)

RECURSIVE Join(_, _)
\* Python's sep.join(items)
Join(sep, items) ==
    IF Len(items) = 0 THEN <<>>
    ELSE IF Len(items) = 1 THEN items[1]
    ELSE items[1] \o sep \o Join(sep, Tail(items))

RECURSIVE EachFollowedBy(_, _)
\* a join that puts the separator after every item, the last one included
EachFollowedBy(sep, items) ==
    IF Len(items) = 0 THEN <<>>
    ELSE items[1] \o sep \o EachFollowedBy(sep, Tail(items))

\* line 57 with a trailing separator
ExtractedTextTrailingSep(pages) == EachFollowedBy(Newline, pages)

\* line 57: "\n".join(page.markdown for page in ocr_response.pages)
ExtractedText(pages) == Join(Newline, pages)

\* line 105 joining on a space
AnalysisTextSpaced(content) == Join(<<" ">>, content)

\* line 105: "".join(chunk.text for chunk in message.content)
AnalysisText(content) == Join(<<>>, content)

\* the literal pieces of the f-string of lines 76-89
PromptHead == <<"\n        ">>

PromptBody ==
    <<"\n\n        Please analyze the following podcast transcript ... Here's the transcript:\n\n        ">>

PromptTail == <<"\n        ">>

\* lines 76-89
user_prompt(user_context, text) ==
    PromptHead \o user_context \o PromptBody \o text \o PromptTail

\* line 59: f"OCR processing failed: {str(e)}"
OcrFailed(m) == <<"OCR processing failed: ">> \o m

\* line 107 carrying the text of line 59
AnalysisFailedAsOcr(m) == <<"OCR processing failed: ">> \o m

\* line 107: f"Analysis failed: {str(e)}"
AnalysisFailed(m) == <<"Analysis failed: ">> \o m

\* line 34: f"Error processing transcript: {str(e)}"
ErrorProcessing(m) == <<"Error processing transcript: ">> \o m

\* a given value appended to the default instead of replacing it
ParsedUserContextMerged(given, value) ==
    IF given THEN DefaultUserContext \o value ELSE DefaultUserContext

\* argparse, lines 112-115: the default stands in only when the flag is absent
ParsedUserContext(given, value) == IF given THEN value ELSE DefaultUserContext

-----------------------------------------------------------------------------
(* Initial state: the interpreter is about to call main(). *)

NoFault == [step |-> "none", msg |-> <<>>]

NoRequest == [sent |-> FALSE, model |-> "", max_tokens |-> 0, temperature |-> 0,
              user_prompt |-> <<>>]

Init ==
    /\ pc = "main"
    /\ argv = [given |-> FALSE, value |-> <<>>]
    /\ config = [user_context |-> <<>>]
    /\ calls = <<>>
    /\ fault = NoFault
    /\ ocr_response = <<>>
    /\ transcript = <<>>
    /\ request = NoRequest
    /\ message = <<>>
    /\ insights = <<>>
    /\ exc = <<>>
    /\ ret = <<>>
    /\ stdout = <<>>

-----------------------------------------------------------------------------
(* main, lines 109-120: parse the command line and build the Config. *)

ParseArgs ==
    /\ pc = "main"
    /\ \E given \in BOOLEAN :
        \E value \in (IF given THEN UserContexts ELSE {<<>>}) :
            /\ argv' = [given |-> given, value |-> value]
            /\ config' = [user_context |-> ParsedUserContext(given, value)]
    /\ pc' = "init_mistral"
    /\ UNCHANGED <<calls, fault, ocr_response, transcript, request, message,
                   insights, exc, ret, stdout>>

(* PodcastAnalyzer.__init__, lines 22-25, called from line 122. *)

MistralOk ==
    /\ pc = "init_mistral"
    /\ pc' = "init_anthropic"
    /\ UNCHANGED <<argv, config, calls, fault, ocr_response, transcript, request,
                   message, insights, exc, ret, stdout>>

MistralFail(m) ==
    /\ pc = "init_mistral"
    /\ fault' = [step |-> "Mistral", msg |-> m]
    /\ exc' = m
    /\ pc' = "uncaught"
    /\ UNCHANGED <<argv, config, calls, ocr_response, transcript, request,
                   message, insights, ret, stdout>>

AnthropicOk ==
    /\ pc = "init_anthropic"
    /\ pc' = "open"
    /\ UNCHANGED <<argv, config, calls, fault, ocr_response, transcript, request,
                   message, insights, exc, ret, stdout>>

AnthropicFail(m) ==
    /\ pc = "init_anthropic"
    /\ fault' = [step |-> "Anthropic", msg |-> m]
    /\ exc' = m
    /\ pc' = "uncaught"
    /\ UNCHANGED <<argv, config, calls, ocr_response, transcript, request,
                   message, insights, ret, stdout>>

-----------------------------------------------------------------------------
(* _extract_text_from_file, lines 36-59, entered from line 30. *)

\* an external step of the extractor raises: control enters line 58
RaiseInExtract(step, m) ==
    /\ calls' = Append(calls, step)
    /\ fault' = [step |-> step, msg |-> m]
    /\ exc' = m
    /\ pc' = "extract_except"
    /\ UNCHANGED <<argv, config, ocr_response, transcript, request, message,
                   insights, ret, stdout>>

\* the open hoisted out of the try of line 38: its failure skips lines 58-59
OpenFailOutsideTry(m) ==
    /\ pc = "open"
    /\ calls' = Append(calls, "open")
    /\ fault' = [step |-> "open", msg |-> m]
    /\ exc' = m
    /\ pc' = "process_except"
    /\ UNCHANGED <<argv, config, ocr_response, transcript, request, message,
                   insights, ret, stdout>>

\* line 42: open(self.config.file_path, "rb"), evaluated before the upload call
OpenOk ==
    /\ pc = "open"
    /\ calls' = Append(calls, "open")
    /\ pc' = "upload"
    /\ UNCHANGED <<argv, config, fault, ocr_response, transcript, request,
                   message, insights, exc, ret, stdout>>

OpenFail(m) ==
    /\ pc = "open"
    /\ RaiseInExtract("open", m)

\* a failed upload tried a second time
UploadFailRetry(m) ==
    /\ pc = "upload"
    /\ calls' = Append(calls, "files.upload")
    /\ fault' = [step |-> "files.upload", msg |-> m]
    /\ exc' = m
    /\ pc' = IF Len(calls) < 2 THEN "upload" ELSE "extract_except"
    /\ UNCHANGED <<argv, config, ocr_response, transcript, request, message,
                   insights, ret, stdout>>

\* lines 39-45: files.upload
UploadOk ==
    /\ pc = "upload"
    /\ calls' = Append(calls, "files.upload")
    /\ pc' = "get_signed_url"
    /\ UNCHANGED <<argv, config, fault, ocr_response, transcript, request,
                   message, insights, exc, ret, stdout>>

UploadFail(m) ==
    /\ pc = "upload"
    /\ RaiseInExtract("files.upload", m)

\* line 47: files.get_signed_url
SignedUrlOk ==
    /\ pc = "get_signed_url"
    /\ calls' = Append(calls, "files.get_signed_url")
    /\ pc' = "ocr"
    /\ UNCHANGED <<argv, config, fault, ocr_response, transcript, request,
                   message, insights, exc, ret, stdout>>

SignedUrlFail(m) ==
    /\ pc = "get_signed_url"
    /\ RaiseInExtract("files.get_signed_url", m)

\* lines 49-55: ocr.process
OcrOk(pages) ==
    /\ pc = "ocr"
    /\ calls' = Append(calls, "ocr.process")
    /\ ocr_response' = pages
    /\ pc' = "join_pages"
    /\ UNCHANGED <<argv, config, fault, transcript, request, message, insights,
                   exc, ret, stdout>>

OcrFail(m) ==
    /\ pc = "ocr"
    /\ RaiseInExtract("ocr.process", m)

\* line 57 returns to line 30, which binds transcript
ExtractReturn ==
    /\ pc = "join_pages"
    /\ transcript' = ExtractedText(ocr_response)
    /\ pc' = "analyze"
    /\ UNCHANGED <<argv, config, calls, fault, ocr_response, request, message,
                   insights, exc, ret, stdout>>

\* lines 58-59 swallowing the exception and returning an empty text
ExtractExceptSwallow ==
    /\ pc = "extract_except"
    /\ transcript' = <<>>
    /\ pc' = "analyze"
    /\ UNCHANGED <<argv, config, calls, fault, ocr_response, request, message,
                   insights, exc, ret, stdout>>

\* lines 58-59: wrap and raise again, into the handler of line 33
ExtractExcept ==
    /\ pc = "extract_except"
    /\ exc' = OcrFailed(exc)
    /\ pc' = "process_except"
    /\ UNCHANGED <<argv, config, calls, fault, ocr_response, transcript, request,
                   message, insights, ret, stdout>>

-----------------------------------------------------------------------------
(* _analyze_transcript, lines 61-107, entered from line 31. *)

\* a request that embeds only the first chunk of the text
CreateRequestTruncated(text) ==
    [sent |-> TRUE, model |-> model, max_tokens |-> max_tokens,
     temperature |-> temperature,
     user_prompt |-> user_prompt(config.user_context,
                                 IF text = <<>> THEN <<>> ELSE <<Head(text)>>)]

\* the keyword arguments of lines 92-103
CreateRequest(text) ==
    [sent |-> TRUE, model |-> model, max_tokens |-> max_tokens,
     temperature |-> temperature,
     user_prompt |-> user_prompt(config.user_context, text)]

\* lines 76-103: build the prompt, messages.create returns
MessagesCreateOk(content) ==
    /\ pc = "analyze"
    /\ calls' = Append(calls, "messages.create")
    /\ request' = CreateRequest(transcript)
    /\ message' = content
    /\ pc' = "join_content"
    /\ UNCHANGED <<argv, config, fault, ocr_response, transcript, insights, exc,
                   ret, stdout>>

\* lines 76-103: build the prompt, messages.create raises: control enters line 106
MessagesCreateFail(m) ==
    /\ pc = "analyze"
    /\ calls' = Append(calls, "messages.create")
    /\ request' = CreateRequest(transcript)
    /\ fault' = [step |-> "messages.create", msg |-> m]
    /\ exc' = m
    /\ pc' = "analyze_except"
    /\ UNCHANGED <<argv, config, ocr_response, transcript, message, insights,
                   ret, stdout>>

\* line 105 returns to line 31, which binds insights
AnalyzeReturn ==
    /\ pc = "join_content"
    /\ insights' = AnalysisText(message)
    /\ pc' = "return_insights"
    /\ UNCHANGED <<argv, config, calls, fault, ocr_response, transcript, request,
                   message, exc, ret, stdout>>

\* lines 106-107: wrap and raise again, into the handler of line 33
AnalyzeExcept ==
    /\ pc = "analyze_except"
    /\ exc' = AnalysisFailed(exc)
    /\ pc' = "process_except"
    /\ UNCHANGED <<argv, config, calls, fault, ocr_response, transcript, request,
                   message, insights, ret, stdout>>

-----------------------------------------------------------------------------
(* process_transcript, lines 27-34, and the rest of main. *)

\* line 32
ProcessReturn ==
    /\ pc = "return_insights"
    /\ ret' = insights
    /\ pc' = "print"
    /\ UNCHANGED <<argv, config, calls, fault, ocr_response, transcript, request,
                   message, insights, exc, stdout>>

\* lines 33-34 letting the exception through
ProcessExceptReraise ==
    /\ pc = "process_except"
    /\ pc' = "uncaught"
    /\ UNCHANGED <<argv, config, calls, fault, ocr_response, transcript, request,
                   message, insights, exc, ret, stdout>>

\* lines 33-34
ProcessExcept ==
    /\ pc = "process_except"
    /\ ret' = ErrorProcessing(exc)
    /\ pc' = "print"
    /\ UNCHANGED <<argv, config, calls, fault, ocr_response, transcript, request,
                   message, insights, exc, stdout>>

\* line 124 printing only when the run succeeded
PrintOnSuccessOnly ==
    /\ pc = "print"
    /\ stdout' = IF fault.step = "none" THEN Append(stdout, ret) ELSE stdout
    /\ pc' = "exit"
    /\ UNCHANGED <<argv, config, calls, fault, ocr_response, transcript, request,
                   message, insights, exc, ret>>

\* line 124, after which main returns and the process exits with status 0
PrintInsights ==
    /\ pc = "print"
    /\ stdout' = Append(stdout, ret)
    /\ pc' = "exit"
    /\ UNCHANGED <<argv, config, calls, fault, ocr_response, transcript, request,
                   message, insights, exc, ret>>

Next ==
    \/ ParseArgs
    \/ MistralOk
    \/ \E m \in Messages : MistralFail(m)
    \/ AnthropicOk
    \/ \E m \in Messages : AnthropicFail(m)
    \/ OpenOk
    \/ \E m \in Messages : OpenFail(m)
    \/ UploadOk
    \/ \E m \in Messages : UploadFail(m)
    \/ SignedUrlOk
    \/ \E m \in Messages : SignedUrlFail(m)
    \/ \E pages \in PageLists : OcrOk(pages)
    \/ \E m \in Messages : OcrFail(m)
    \/ ExtractReturn
    \/ ExtractExcept
    \/ \E content \in FragmentLists : MessagesCreateOk(content)
    \/ \E m \in Messages : MessagesCreateFail(m)
    \/ AnalyzeReturn
    \/ AnalyzeExcept
    \/ ProcessReturn
    \/ ProcessExcept
    \/ PrintInsights

Spec == Init /\ [][Next]_vars

-----------------------------------------------------------------------------
(* Vocabulary of the properties. *)

\* the steps of _extract_text_from_file that can raise
ExtractSteps == {"open", "files.upload", "files.get_signed_url", "ocr.process"}

\* the external service operations, in program order
ServiceOrder ==
    <<"files.upload", "files.get_signed_url", "ocr.process", "messages.create">>

\* the client constructors of __init__
Constructors == {"Mistral", "Anthropic"}

\* process_transcript has returned to main
Returned == pc \in {"print", "exit"}

\* control is inside process_transcript
InProcessTranscript ==
    pc \in {"open", "upload", "get_signed_url", "ocr", "join_pages",
            "extract_except", "analyze", "join_content", "analyze_except",
            "return_insights", "process_except"}

\* _extract_text_from_file has returned a text to line 30
Extracted ==
    pc \in {"analyze", "join_content", "analyze_except", "return_insights"}
    \/ (pc \in {"process_except", "print", "exit"} /\ fault.step \notin ExtractSteps)

\* _analyze_transcript has returned a text to line 31
Analyzed ==
    pc = "return_insights" \/ (Returned /\ fault.step = "none")

CountCalls(op) == Cardinality({i \in 1..Len(calls) : calls[i] = op})

Called(op) == \E i \in 1..Len(calls) : calls[i] = op

\* the service operations of the log, the file open left out
IsServiceCall(op) == op # "open"

ServiceCalls == SelectSeq(calls, IsServiceCall)

IsPrefix(p, s) == Len(p) <= Len(s) /\ SubSeq(s, 1, Len(p)) = p

HasChunk(s, c) == \E i \in 1..Len(s) : s[i] = c

CountChunk(s, c) == Cardinality({i \in 1..Len(s) : s[i] = c})

RECURSIVE OffsetOf(_, _, _)
\* where item i starts in a text made of items with sep between them
OffsetOf(sep, items, i) ==
    IF i = 1 THEN 0
    ELSE OffsetOf(sep, items, i - 1) + Len(items[i - 1]) + Len(sep)

\* text is the items in order with exactly one sep between consecutive items
\* and nothing before, after or besides
SeparatedBy(sep, items, text) ==
    LET n == Len(items)
    IN  /\ n = 0 => text = <<>>
        /\ n > 0 =>
             Len(text) = OffsetOf(sep, items, n) + Len(items[n])
        /\ \A i \in 1..n :
             LET off == OffsetOf(sep, items, i)
             IN  /\ SubSeq(text, off + 1, off + Len(items[i])) = items[i]
                 /\ i < n =>
                      SubSeq(text, off + Len(items[i]) + 1,
                             off + Len(items[i]) + Len(sep)) = sep

-----------------------------------------------------------------------------
(* Properties. *)

\* C1: process_transcript never raises to its caller: whatever the outcome of
\* the open, upload, signed-URL, OCR and generation steps, control inside
\* process_transcript always has a next step and never leaves it by an
\* uncaught exception, and the value it returns is the generator's output
\* when no step failed and otherwise a string that begins with
\* "Error processing transcript: ".
C1_NeverRaises ==
    /\ InProcessTranscript => ENABLED Next
    /\ pc = "uncaught" => fault.step \in Constructors
    /\ Returned =>
         IF fault.step = "none"
         THEN ret = insights /\ Called("messages.create")
         ELSE IsPrefix(<<"Error processing transcript: ">>, ret)

C1_Witness ==
    /\ pc = "exit"
    /\ fault.step = "files.get_signed_url"
    /\ IsPrefix(<<"Error processing transcript: ">>, ret)

\* C2: if a step of the extractor fails with message m, messages.create is
\* never invoked in that run and process_transcript returns exactly
\* "Error processing transcript: OCR processing failed: " followed by m.
C2_ExtractFailure ==
    fault.step \in ExtractSteps =>
        /\ ~Called("messages.create")
        /\ ~request.sent
        /\ pc \notin {"analyze", "join_content", "analyze_except", "return_insights"}
        /\ Returned =>
             ret = <<"Error processing transcript: ", "OCR processing failed: ">>
                     \o fault.msg

C2_Witness ==
    /\ pc = "exit"
    /\ fault = [step |-> "ocr.process", msg |-> <<"m">>]
    /\ ret = <<"Error processing transcript: ", "OCR processing failed: ", "m">>

\* C3: if extraction succeeds and the generation call fails with message m,
\* process_transcript returns exactly
\* "Error processing transcript: Analysis failed: " followed by m, which
\* holds "OCR processing failed: " only where m does.
C3_AnalysisFailure ==
    (fault.step = "messages.create" /\ Returned) =>
        /\ Extracted
        /\ ret = <<"Error processing transcript: ", "Analysis failed: ">>
                   \o fault.msg
        /\ HasChunk(ret, "Analysis failed: ")
        /\ CountChunk(ret, "OCR processing failed: ")
             = CountChunk(fault.msg, "OCR processing failed: ")

C3_Witness ==
    /\ pc = "exit"
    /\ fault = [step |-> "messages.create", msg |-> <<"m">>]
    /\ ret = <<"Error processing transcript: ", "Analysis failed: ", "m">>

\* C4: when no external call fails the service operations occur in the order
\* upload, get_signed_url, ocr.process, messages.create; the request's prompt
\* ends with exactly the text extraction returned followed by the template's
\* tail; and process_transcript returns what _analyze_transcript returned.
C4_SequentialComposition ==
    /\ fault.step = "none" => IsPrefix(ServiceCalls, ServiceOrder)
    /\ (fault.step = "none" /\ Returned) =>
         LET p == request.user_prompt
             n == Len(p) - Len(PromptTail)
         IN  /\ ServiceCalls = ServiceOrder
             /\ request.sent
             /\ transcript = ExtractedText(ocr_response)
             /\ Len(p) = Len(PromptHead) + Len(config.user_context)
                           + Len(PromptBody) + Len(transcript) + Len(PromptTail)
             /\ SubSeq(p, n - Len(transcript) + 1, n) = transcript
             /\ insights = AnalysisText(message)
             /\ ret = insights

C4_Witness ==
    /\ pc = "exit"
    /\ fault.step = "none"
    /\ Len(transcript) >= 3
    /\ Len(ret) = 2

C6_PagesNewlineJoined ==
    Extracted =>
        /\ SeparatedBy(<<"\n">>, ocr_response, transcript)
        /\ ocr_response = <<>> => transcript = <<>>
        /\ ocr_response = <<<<"A">>, <<"B">>, <<"C">>>>
             => transcript = <<"A", "\n", "B", "\n", "C">>

C6_Witness ==
    /\ pc = "analyze"
    /\ ocr_response = <<<<"A">>, <<"B">>, <<"C">>>>
    /\ transcript = <<"A", "\n", "B", "\n", "C">>

\* C7: the analysis result is the response's text fragments concatenated in
\* response order with no separator; "Hello ", "world" give "Hello world".
C7_FragmentsConcatenated ==
    Analyzed =>
        /\ SeparatedBy(<<>>, message, insights)
        /\ message = <<>> => insights = <<>>
        /\ message = <<<<"Hello ">>, <<"world">>>>
             => insights = <<"Hello ", "world">>

C7_Witness ==
    /\ pc = "return_insights"
    /\ message = <<<<"Hello ">>, <<"world">>>>
    /\ insights = <<"Hello ", "world">>

\* C8: the user prompt sent to the generation service holds the configured
\* user context verbatim in its context slot, right after the template's
\* head: the default sentence when --user-context is omitted, the given
\* value when it is given; the given value replaces the default and is not
\* merged with it, so the default sentence occurs in the prompt only where
\* the given value or the transcript holds it.
C8_UserContextVerbatim ==
    request.sent =>
        LET p == request.user_prompt
            default ==
                <<"I am a professional looking to grow my career in technology and startups.">>
            context == IF argv.given THEN argv.value ELSE default
        IN  /\ IsPrefix(PromptHead \o context \o PromptBody, p)
            /\ Len(p) = Len(PromptHead) + Len(context) + Len(PromptBody)
                          + Len(transcript) + Len(PromptTail)
            /\ argv.given =>
                 CountChunk(p, default[1])
                   = CountChunk(argv.value, default[1])
                       + CountChunk(transcript, default[1])
            /\ ~argv.given => CountChunk(p, default[1]) = 1

C8_Witness ==
    /\ request.sent
    /\ argv = [given |-> TRUE, value |-> <<"I am a nurse.">>]
    /\ IsPrefix(PromptHead \o <<"I am a nurse.">>, request.user_prompt)

\* C9: no retry: in one run each of the four service operations is invoked at
\* most once and in program order, and once one of them (or the file open)
\* fails no later operation is invoked.
C9_NoRetry ==
    /\ \A i \in 1..Len(ServiceOrder) : CountCalls(ServiceOrder[i]) <= 1
    /\ IsPrefix(ServiceCalls, ServiceOrder)
    /\ (fault.step \in ExtractSteps \cup {"messages.create"}) =>
         (calls # <<>> /\ calls[Len(calls)] = fault.step)
    /\ fault.step = "files.upload" =>
         (~Called("files.get_signed_url") /\ ~Called("ocr.process")
            /\ ~Called("messages.create"))
    /\ fault.step = "files.get_signed_url" =>
         (~Called("ocr.process") /\ ~Called("messages.create"))

C9_Witness ==
    /\ pc = "exit"
    /\ fault.step = "files.get_signed_url"
    /\ calls = <<"open", "files.upload", "files.get_signed_url">>

\* C10: the input file is opened at most once per run, before any service
\* operation and inside the extractor's error boundary: if the open fails no
\* service operation is invoked and process_transcript returns a string that
\* begins with "Error processing transcript: OCR processing failed: ".
C10_OpenOnceInsideBoundary ==
    /\ CountCalls("open") <= 1
    /\ calls # <<>> => calls[1] = "open"
    /\ fault.step = "open" =>
         /\ ServiceCalls = <<>>
         /\ calls = <<"open">>
         /\ Returned =>
              IsPrefix(<<"Error processing transcript: ", "OCR processing failed: ">>,
                       ret)

C10_Witness ==
    /\ pc = "exit"
    /\ fault = [step |-> "open", msg |-> <<"m">>]
    /\ calls = <<"open">>
    /\ stdout = <<<<"Error processing transcript: ", "OCR processing failed: ", "m">>>>

====
